---- MODULE Spec2Model ----
(***************************************************************************)
(* A model of lls (src/main.rs): the LSP session loop Server::serve, the    *)
(* cursor-to-word scan get_word, and the renderers Dict::render_hover and   *)
(* Dict::all_info.                                                          *)
(*                                                                          *)
(* Strings are sequences of characters; a character is a one-token string. *)
(* "U+0130" is LATIN CAPITAL LETTER I WITH DOT ABOVE, the one character     *)
(* whose char::to_lowercase yields two characters ("i", "U+0307"), and      *)
(* "U+0307" (COMBINING DOT ABOVE) is not alphabetic.                        *)
(***************************************************************************)
EXTENDS Integers, Sequences, FiniteSets, TLC

VARIABLES
    \* --- Server::serve / main -------------------------------------------
    shutdown,   \* Server.shutdown
    serveResult,\* "running" while serve loops; then what serve came to:
                \* "Ok", "Err", or "panic" (an unwrap failed)
    exitCode,   \* Option: the process exit code, once the process has exited
    received,   \* the inbound messages c.receiver.recv() delivered so far
    sent,       \* the outbound messages given to c.sender.send so far
    handled,    \* what handling the last inbound message did:
                \* [handler, get_word, dict, wrote]
    files,      \* the documents all_info wrote: filename -> content
    wordnet,    \* Dict.wordnet: [synsets: word -> Seq(SynSet), resolve: key -> Option]
    \* --- get_word on one line -------------------------------------------
    line,       \* the line read from the document
    character,  \* tdp.position.character
    located,    \* get_word's result
    lpc,        \* "input" before the scan, "done" after
    \* --- Dict::render_hover on one entry --------------------------------
    hword,      \* the queried word
    hsynsets,   \* the senses wordnet.synsets(word) returned
    blocks,     \* render_hover's blocks, before the final join
    hpc         \* "input" before rendering, "done" after

sessionVars == <<shutdown, serveResult, exitCode, received, sent, handled, files>>
wordVars == <<line, character, located, lpc>>
hoverVars == <<hword, hsynsets, blocks, hpc>>
vars == <<sessionVars, wordnet, wordVars, hoverVars>>
\* what the session leaves alone: its dictionary and the other components
sessionFrame == <<wordnet, wordVars, hoverVars>>

(***************************************************************************)
(* Bounds of the model.                                                     *)
(***************************************************************************)
MaxLen == 3        \* longest line the scan is checked on
MaxMsgs == 3       \* inbound messages per session
MaxSenses == 2     \* senses per rendered entry

(***************************************************************************)
(* Option<T>                                                                *)
(***************************************************************************)
None == [some |-> FALSE, v |-> <<>>]
Some(x) == [some |-> TRUE, v |-> x]

(***************************************************************************)
(* Characters.                                                              *)
(***************************************************************************)
AlphaChars == {"a", "b", "c", "i", "A", "B", "U+0130"}
OtherChars == {" ", "1", "_", ",", "U+0307"}

\* char::is_alphabetic
is_alphabetic(c) == c \in AlphaChars

\* char::to_lowercase: an iterator of one or more characters
to_lowercase(c) ==
    CASE c = "A" -> <<"a">>
      [] c = "B" -> <<"b">>
      [] c = "U+0130" -> <<"i", "U+0307">>
      [] OTHER -> <<c>>

\* the code point of a character: String's Ord compares UTF-8 bytes, which
\* orders strings as their code point sequences
CodePoint(c) ==
    CASE c = " " -> 32
      [] c = "," -> 44
      [] c = "1" -> 49
      [] c = "A" -> 65
      [] c = "B" -> 66
      [] c = "_" -> 95
      [] c = "a" -> 97
      [] c = "b" -> 98
      [] c = "c" -> 99
      [] c = "i" -> 105
      [] c = "U+0130" -> 304
      [] c = "U+0307" -> 775

(***************************************************************************)
(* get_word, lines 384-412: the scan of one line.                           *)
(* scan is the for loop from index i on, with the loop's locals as          *)
(* parameters; its value is what get_word returns.                          *)
(***************************************************************************)
RECURSIVE scan_clear_first(_, _, _, _, _)
scan_clear_first(l, ch, i, current_word, found) ==
    \* the scan without lines 392-394: a non-alphabetic character clears the
    \* candidate even when the cursor was already reached
    IF i >= Len(l)
    THEN IF found THEN Some(current_word) ELSE None
    ELSE LET c == l[i + 1]
             cw == IF is_alphabetic(c) THEN current_word \o to_lowercase(c) ELSE <<>>
             f == found \/ i = ch
         IN  IF ~is_alphabetic(c) /\ f
             THEN Some(cw)
             ELSE scan_clear_first(l, ch, i + 1, cw, f)

RECURSIVE scan_found_at_end(_, _, _, _, _)
scan_found_at_end(l, ch, i, current_word, found) ==
    \* the scan with a cursor just past the last character taken as reached
    IF i >= Len(l)
    THEN IF found \/ ch = Len(l) THEN Some(current_word) ELSE None
    ELSE LET c == l[i + 1]
         IN  IF ~is_alphabetic(c) /\ found
             THEN Some(current_word)
             ELSE LET cw == IF is_alphabetic(c)
                            THEN current_word \o to_lowercase(c)
                            ELSE <<>>
                      f == found \/ i = ch
                  IN  IF ~is_alphabetic(c) /\ f
                      THEN Some(cw)
                      ELSE scan_found_at_end(l, ch, i + 1, cw, f)

RECURSIVE scan(_, _, _, _, _)
scan(l, ch, i, current_word, found) ==
    IF i >= Len(l)
    THEN IF found THEN Some(current_word) ELSE None          \* lines 407-412
    ELSE LET c == l[i + 1]
         IN  IF ~is_alphabetic(c) /\ found
             THEN Some(current_word)                          \* lines 392-394
             ELSE LET cw == IF is_alphabetic(c)
                            THEN current_word \o to_lowercase(c)   \* 387-390
                            ELSE <<>>                              \* 395
                      f == found \/ i = ch                         \* 398-400
                  IN  IF ~is_alphabetic(c) /\ f
                      THEN Some(cw)                                \* 402-404
                      ELSE scan(l, ch, i + 1, cw, f)

\* get_word on a line that was read: lines 384-412
get_word_in_line(l, ch) == scan(l, ch, 0, <<>>, FALSE)

(***************************************************************************)
(* The lexical database (lls_lib::wordnet), as main.rs uses it.             *)
(* A SynSet is [part_of_speech, definition, words, relationships]; a        *)
(* relationship is [relation, part_of_speech, synset_offset].               *)
(***************************************************************************)
\* PartOfSpeech::iter(): the canonical order of the parts of speech
PartOfSpeech_iter == <<"noun", "verb", "adjective", "adverb">>

\* Relation's Ord, the key order of the BTreeMap in all_info
Relation_order == <<"Antonym", "Hypernym", "Hyponym">>

\* WordNet::synsets(word)
synsets_of(wn, word) ==
    IF word \in DOMAIN wn.synsets THEN wn.synsets[word] ELSE <<>>

\* WordNet::resolve(part_of_speech, synset_offset)
resolve(wn, pos, offset) ==
    IF <<pos, offset>> \in DOMAIN wn.resolve
    THEN Some(wn.resolve[<<pos, offset>>])
    ELSE None

\* SynSet::with_relationship(relation)
with_relationship(ss, relation) ==
    SelectSeq(ss.relationships, LAMBDA r : r.relation = relation)

(***************************************************************************)
(* Vec and String helpers of the standard library.                          *)
(***************************************************************************)
\* String's Ord: a < b
RECURSIVE str_lt(_, _)
str_lt(a, b) ==
    IF a = <<>> THEN b /= <<>>
    ELSE IF b = <<>> THEN FALSE
    ELSE IF CodePoint(Head(a)) < CodePoint(Head(b)) THEN TRUE
    ELSE IF CodePoint(Head(a)) > CodePoint(Head(b)) THEN FALSE
    ELSE str_lt(Tail(a), Tail(b))

\* insert x into the sorted v, after the elements not greater than it
RECURSIVE insert_sorted(_, _)
insert_sorted(v, x) ==
    IF v = <<>> THEN <<x>>
    ELSE IF str_lt(x, Head(v)) THEN <<x>> \o v
    ELSE <<Head(v)>> \o insert_sorted(Tail(v), x)

\* Vec::sort / sort_unstable on strings
RECURSIVE sort(_)
sort(v) ==
    IF v = <<>> THEN <<>>
    ELSE insert_sorted(sort(SubSeq(v, 1, Len(v) - 1)), v[Len(v)])

\* Vec::dedup: consecutive equal elements collapse to the first
RECURSIVE dedup(_)
dedup(v) ==
    IF Len(v) <= 1 THEN v
    ELSE IF v[1] = v[2] THEN dedup(Tail(v))
    ELSE <<v[1]>> \o dedup(Tail(v))

\* str::replace(from, to) for single characters
replace(x, from, to) == [k \in 1..Len(x) |-> IF x[k] = from THEN to ELSE x[k]]

\* Iterator::flat_map over a sequence of sequences
RECURSIVE flatten(_)
flatten(vv) == IF vv = <<>> THEN <<>> ELSE Head(vv) \o flatten(Tail(vv))

map(v, f(_)) == [k \in 1..Len(v) |-> f(v[k])]

(***************************************************************************)
(* Dict::render_hover, lines 260-323.  The value is the Vec blocks; a block *)
(* is [kind, pos, word, items]: kind "defs" is the header block with its    *)
(* numbered definitions <<i, definition>>, kinds "Synonyms" and "Antonyms"  *)
(* hold the items that are joined with ", ".                                *)
(***************************************************************************)
synonyms_block_unfiltered(word, pos, ss_pos) ==
    \* the Synonyms block without the filter of line 290
    LET synonyms == dedup(sort(flatten(map(ss_pos, LAMBDA ss : ss.words))))
    IN  IF synonyms /= <<>>
        THEN << [kind |-> "Synonyms", pos |-> pos, word |-> word,
                 items |-> map(synonyms, LAMBDA x : replace(x, "_", " "))] >>
        ELSE <<>>

\* lines 284-295
synonyms_block(word, pos, ss_pos) ==
    LET synonyms == dedup(sort(flatten(map(ss_pos, LAMBDA ss : ss.words))))
    IN  IF synonyms /= <<>>
        THEN << [kind |-> "Synonyms", pos |-> pos, word |-> word,
                 items |-> map(SelectSeq(synonyms, LAMBDA w : w /= word),
                               LAMBDA x : replace(x, "_", " "))] >>
        ELSE <<>>

\* lines 297-319
antonyms_block(wn, word, pos, ss_pos) ==
    LET target_words(r) ==
            LET t == resolve(wn, r.part_of_speech, r.synset_offset)
            IN  IF t.some THEN t.v.words ELSE <<>>
        of_sense(ss) ==
            flatten(map(with_relationship(ss, "Antonym"), target_words))
        antonyms == dedup(sort(flatten(map(ss_pos, of_sense))))
    IN  IF antonyms /= <<>>
        THEN << [kind |-> "Antonyms", pos |-> pos, word |-> word,
                 items |-> map(antonyms, LAMBDA x : replace(x, "_", " "))] >>
        ELSE <<>>

defs_block_zero_based(word, pos, ss_pos) ==
    \* the header block numbering with i instead of i + 1 (line 277)
    IF ss_pos /= <<>>
    THEN << [kind |-> "defs", pos |-> pos, word |-> word,
             items |-> [i \in 1..Len(ss_pos) |-> <<i - 1, ss_pos[i].definition>>]] >>
    ELSE <<>>

\* lines 264-282
defs_block(word, pos, ss_pos) ==
    IF ss_pos /= <<>>
    THEN << [kind |-> "defs", pos |-> pos, word |-> word,
             items |-> [i \in 1..Len(ss_pos) |-> <<i, ss_pos[i].definition>>]] >>
    ELSE <<>>

\* the body of the loop over PartOfSpeech::iter(), lines 263-320
render_pos(wn, word, synsets, pos) ==
    LET ss_pos == SelectSeq(synsets, LAMBDA ss : ss.part_of_speech = pos)
    IN  defs_block(word, pos, ss_pos)
        \o synonyms_block(word, pos, ss_pos)
        \o antonyms_block(wn, word, pos, ss_pos)

render_hover(wn, word, synsets) ==
    flatten(map(PartOfSpeech_iter, LAMBDA pos : render_pos(wn, word, synsets, pos)))

\* Dict::hover, lines 255-258
hover(wn, word) == render_hover(wn, word, synsets_of(wn, word))

(***************************************************************************)
(* Dict::all_info, lines 325-370.  The document is [heading, entries]; an   *)
(* entry is [i, pos, definition, synonyms, relationships], relationships    *)
(* the lines "**relation**: words" in the BTreeMap's key order.             *)
(***************************************************************************)
filename_of(word) == <<"/tmp/lls-", word, ".md">>                  \* line 327

\* lines 340-358: None when a resolve(..).unwrap() panics
relationships_of(wn, synset) ==
    LET rs == synset.relationships
        resolved(r) == resolve(wn, r.part_of_speech, r.synset_offset)
    IN  IF \E k \in 1..Len(rs) : ~resolved(rs[k]).some
        THEN None
        ELSE LET words_of(relation) ==
                     dedup(sort(flatten(map(with_relationship(synset, relation),
                                            LAMBDA r : resolved(r).v.words))))
                 present == SelectSeq(Relation_order,
                                LAMBDA rel : with_relationship(synset, rel) /= <<>>)
             IN  Some(map(present,
                          LAMBDA rel : [relation |-> rel, words |-> words_of(rel)]))

\* lines 331-339 and 360-367: the entry written for the i-th sense
entry_of(word, i, synset, relationships) ==
    [i |-> i,
     pos |-> synset.part_of_speech,
     definition |-> synset.definition,
     synonyms |-> SelectSeq(sort(synset.words), LAMBDA w : w /= word),
     relationships |-> relationships]

\* the loop of lines 330-368 from the i-th sense on, `written` being the
\* entries already in the file
RECURSIVE all_info_loop(_, _, _, _, _)
all_info_loop(wn, word, synsets, i, written) ==
    IF i > Len(synsets)
    THEN [panicked |-> FALSE, entries |-> written]
    ELSE LET rel == relationships_of(wn, synsets[i])
         IN  IF ~rel.some
             THEN [panicked |-> TRUE, entries |-> written]
             ELSE all_info_loop(wn, word, synsets, i + 1,
                                Append(written, entry_of(word, i, synsets[i], rel.v)))

\* all_info: [panicked, filename, content]; the file holds content either way
all_info(wn, word) ==
    LET r == all_info_loop(wn, word, synsets_of(wn, word), 1, <<>>)
    IN  [panicked |-> r.panicked,
         filename |-> filename_of(word),
         content |-> [heading |-> word, entries |-> r.entries]]

(***************************************************************************)
(* The documents get_word reads.  A document is a sequence of lines; a line *)
(* is [utf8, chars], utf8 FALSE for a line that is not valid UTF-8.         *)
(***************************************************************************)
Documents ==
    [uri \in {"file:///doc"} |->
        << [utf8 |-> TRUE, chars |-> <<"a", "B", " ", "c">>],
           [utf8 |-> TRUE, chars |-> <<>>],
           [utf8 |-> FALSE, chars |-> <<>>],
           [utf8 |-> TRUE, chars |-> <<"i">>] >>]

Uris == {"file:///doc", "file:///missing", "untitled:1"}

\* Url::to_file_path succeeds on file: URLs only
to_file_path_ok(uri) == uri /= "untitled:1"

\* the TextDocumentPositionParams a request may carry; valid FALSE stands
\* for params serde_json::from_value cannot decode
MalformedParams == [valid |-> FALSE, uri |-> "", line |-> 0, character |-> 0]
PositionParams ==
    {MalformedParams} \cup
    [valid : {TRUE}, uri : Uris, line : 0..4, character : 0..4]

\* get_word, lines 373-413: [panicked, word]
get_word(tdp) ==
    IF ~to_file_path_ok(tdp.uri) \/ tdp.uri \notin DOMAIN Documents
    THEN [panicked |-> TRUE, word |-> None]                        \* line 374
    ELSE LET lines == Documents[tdp.uri]
         IN  IF tdp.line >= Len(lines)
             THEN [panicked |-> FALSE, word |-> None]              \* line 377
             ELSE IF ~lines[tdp.line + 1].utf8
             THEN [panicked |-> FALSE, word |-> None]              \* line 379
             ELSE [panicked |-> FALSE,
                   word |-> get_word_in_line(lines[tdp.line + 1].chars,
                                             tdp.character)]

(***************************************************************************)
(* The dictionary of the session: "ab" has two senses whose relation        *)
(* targets resolve, "c" has one sense whose relation target is not in the   *)
(* database, and no other word ("i" of the document among them) is known.   *)
(***************************************************************************)
SynSet(pos, definition, words, relationships) ==
    [part_of_speech |-> pos, definition |-> definition,
     words |-> words, relationships |-> relationships]

Relationship(relation, pos, offset) ==
    [relation |-> relation, part_of_speech |-> pos, synset_offset |-> offset]

SensesOfAb ==
    << SynSet("noun", "d1", << <<"a", "b">>, <<"a", "_", "c">> >>,
              << Relationship("Antonym", "noun", 1) >>),
       SynSet("verb", "d2", << <<"a", "b">> >>,
              << Relationship("Hypernym", "verb", 2) >>) >>

SensesOfC ==
    << SynSet("noun", "d5", << <<"c">> >>,
              << Relationship("Antonym", "noun", 3) >>) >>

SessionWordNet ==
    [synsets |-> (<<"a", "b">> :> SensesOfAb) @@ (<<"c">> :> SensesOfC),
     resolve |-> (<<"noun", 1>> :> SynSet("noun", "d3", << <<"c">> >>, <<>>))
                 @@ (<<"verb", 2>> :> SynSet("verb", "d4", << <<"b">> >>, <<>>))]

(***************************************************************************)
(* Messages.                                                                *)
(***************************************************************************)
\* Request ids: the client numbers its messages, so the message received
\* as the k-th carries id k (serve only copies the id, it never reads it)
NextId == Len(received) + 1
Methods == {"textDocument/hover", "textDocument/definition", "shutdown",
            "workspace/symbol"}
NotificationMethods == {"exit", "initialized"}

\* inbound
Request(id, method) == [kind |-> "Request", id |-> id, method |-> method]
InResponse(id) == [kind |-> "Response", id |-> id, method |-> ""]
InNotification(method) == [kind |-> "Notification", id |-> 0, method |-> method]

\* outbound: Response { id, result, error } and the log-message Notification
Absent == [tag |-> "absent", value |-> <<>>]              \* result: None
Null == [tag |-> "null", value |-> <<>>]                  \* Some(Value::Null)
HoverResult(text) == [tag |-> "hover", value |-> text]
LocationResult(filename) == [tag |-> "location", value |-> filename]

InvalidRequestError ==
    Some([code |-> "InvalidRequest", message |-> "received request after shutdown"])

Response(id, result, error) ==
    [kind |-> "Response", id |-> id, method |-> "",
     result |-> result, error |-> error, message |-> <<>>]

\* fn log, lines 35-42
LogMessage(message) ==
    [kind |-> "Notification", id |-> 0, method |-> "window/logMessage",
     result |-> Absent, error |-> None, message |-> message]

\* what handling one message did
Handled(handler, called_get_word, called_dict, wrote) ==
    [handler |-> handler, get_word |-> called_get_word,
     dict |-> called_dict, wrote |-> wrote]
NotDispatched == Handled("none", FALSE, FALSE, FALSE)

(***************************************************************************)
(* Server::serve, lines 116-226: one action per arm of the loop.            *)
(***************************************************************************)
\* line 118: the loop is running and recv() delivers m
Recv(m) ==
    /\ serveResult = "running"
    /\ Len(received) < MaxMsgs
    /\ received' = Append(received, m)

\* line 118: the channel is closed, recv() is Err and unwrap panics
RecvDisconnected ==
    /\ serveResult = "running"
    /\ serveResult' = "panic"
    /\ UNCHANGED <<shutdown, exitCode, received, sent, handled, files, sessionFrame>>

\* lines 121-134 with the request answered as a first Shutdown is
RequestAfterShutdown_answers_ok ==
    \E id \in {NextId}, method \in Methods :
        /\ shutdown
        /\ Recv(Request(id, method))
        /\ sent' = Append(sent, Response(id, Null, None))
        /\ handled' = NotDispatched
        /\ UNCHANGED <<shutdown, serveResult, exitCode, files, sessionFrame>>

\* lines 121-134 with the flag cleared once the error is sent
RequestAfterShutdown_clears_flag ==
    \E id \in {NextId}, method \in Methods :
        /\ shutdown
        /\ Recv(Request(id, method))
        /\ sent' = Append(sent, Response(id, Absent, InvalidRequestError))
        /\ handled' = NotDispatched
        /\ shutdown' = FALSE
        /\ UNCHANGED <<serveResult, exitCode, files, sessionFrame>>

\* lines 121-134
RequestAfterShutdown ==
    \E id \in {NextId}, method \in Methods :
        /\ shutdown
        /\ Recv(Request(id, method))
        /\ sent' = Append(sent, Response(id, Absent, InvalidRequestError))
        /\ handled' = NotDispatched
        /\ UNCHANGED <<shutdown, serveResult, exitCode, files, sessionFrame>>

\* lines 137-170
HandleHover ==
    \E id \in {NextId}, tdp \in PositionParams :
        /\ ~shutdown
        /\ Recv(Request(id, "textDocument/hover"))
        /\ UNCHANGED <<shutdown, exitCode, files, sessionFrame>>
        /\ IF ~tdp.valid
           THEN /\ serveResult' = "panic"                           \* line 142
                /\ sent' = sent
                /\ handled' = Handled("hover", FALSE, FALSE, FALSE)
           ELSE LET w == get_word(tdp)
                IN  IF w.panicked
                    THEN /\ serveResult' = "panic"
                         /\ sent' = sent
                         /\ handled' = Handled("hover", TRUE, FALSE, FALSE)
                    ELSE /\ serveResult' = serveResult
                         /\ IF w.word.some
                            THEN /\ sent' = Append(sent,
                                        Response(id, HoverResult(hover(wordnet, w.word.v)), None))
                                 /\ handled' = Handled("hover", TRUE, TRUE, FALSE)
                            ELSE /\ sent' = Append(sent, Response(id, Absent, None))
                                 /\ handled' = Handled("hover", TRUE, FALSE, FALSE)

\* lines 171-200
HandleDefinition ==
    \E id \in {NextId}, tdp \in PositionParams :
        /\ ~shutdown
        /\ Recv(Request(id, "textDocument/definition"))
        /\ UNCHANGED <<shutdown, exitCode, sessionFrame>>
        /\ IF ~tdp.valid
           THEN /\ serveResult' = "panic"                           \* line 176
                /\ sent' = sent
                /\ files' = files
                /\ handled' = Handled("definition", FALSE, FALSE, FALSE)
           ELSE LET w == get_word(tdp)
                IN  IF w.panicked
                    THEN /\ serveResult' = "panic"
                         /\ sent' = sent
                         /\ files' = files
                         /\ handled' = Handled("definition", TRUE, FALSE, FALSE)
                    ELSE IF w.word.some
                    THEN LET info == all_info(wordnet, w.word.v)
                         IN  /\ files' = (info.filename :> info.content) @@ files
                             /\ handled' = Handled("definition", TRUE, TRUE, TRUE)
                             /\ IF info.panicked
                                THEN /\ serveResult' = "panic"      \* line 345
                                     /\ sent' = sent
                                ELSE /\ serveResult' = serveResult
                                     /\ sent' = Append(sent,
                                            Response(id, LocationResult(info.filename), None))
                    ELSE /\ serveResult' = serveResult
                         /\ files' = files
                         /\ sent' = Append(sent, Response(id, Absent, None))
                         /\ handled' = Handled("definition", TRUE, FALSE, FALSE)

\* lines 201-207 replying as the None arms of hover and definition do
HandleShutdown_absent_result ==
    \E id \in {NextId} :
        /\ ~shutdown
        /\ Recv(Request(id, "shutdown"))
        /\ shutdown' = TRUE
        /\ sent' = Append(sent, Response(id, Absent, None))
        /\ handled' = Handled("shutdown", FALSE, FALSE, FALSE)
        /\ UNCHANGED <<serveResult, exitCode, files, sessionFrame>>

\* lines 201-207 without line 202
HandleShutdown_keeps_flag ==
    \E id \in {NextId} :
        /\ ~shutdown
        /\ Recv(Request(id, "shutdown"))
        /\ sent' = Append(sent, Response(id, Null, None))
        /\ handled' = Handled("shutdown", FALSE, FALSE, FALSE)
        /\ UNCHANGED <<shutdown, serveResult, exitCode, files, sessionFrame>>

\* lines 201-207
HandleShutdown ==
    \E id \in {NextId} :
        /\ ~shutdown
        /\ Recv(Request(id, "shutdown"))
        /\ shutdown' = TRUE
        /\ sent' = Append(sent, Response(id, Null, None))
        /\ handled' = Handled("shutdown", FALSE, FALSE, FALSE)
        /\ UNCHANGED <<serveResult, exitCode, files, sessionFrame>>

\* line 208 answering the unknown method with an error response
UnmatchedRequest_replies_error ==
    \E id \in {NextId}, method \in Methods \ {"textDocument/hover",
                                "textDocument/definition", "shutdown"} :
        /\ ~shutdown
        /\ Recv(Request(id, method))
        /\ sent' = Append(sent, Response(id, Absent, InvalidRequestError))
        /\ handled' = NotDispatched
        /\ UNCHANGED <<shutdown, serveResult, exitCode, files, sessionFrame>>

\* line 208
UnmatchedRequest ==
    \E id \in {NextId}, method \in Methods \ {"textDocument/hover",
                                "textDocument/definition", "shutdown"} :
        /\ ~shutdown
        /\ Recv(Request(id, method))
        /\ sent' = Append(sent, LogMessage(<<"Unmatched request received: ", method>>))
        /\ handled' = NotDispatched
        /\ UNCHANGED <<shutdown, serveResult, exitCode, files, sessionFrame>>

\* line 211
UnmatchedResponse ==
    \E id \in {NextId} :
        /\ Recv(InResponse(id))
        /\ sent' = Append(sent, LogMessage(<<"Unmatched response received: ", id>>))
        /\ handled' = NotDispatched
        /\ UNCHANGED <<shutdown, serveResult, exitCode, files, sessionFrame>>

\* lines 213-221 without the test of the flag
ExitNotification_always_ok ==
    /\ Recv(InNotification("exit"))
    /\ serveResult' = "Ok"
    /\ handled' = NotDispatched
    /\ UNCHANGED <<shutdown, exitCode, sent, files, sessionFrame>>

\* lines 213-221
ExitNotification ==
    /\ Recv(InNotification("exit"))
    /\ serveResult' = IF shutdown THEN "Ok" ELSE "Err"
    /\ handled' = NotDispatched
    /\ UNCHANGED <<shutdown, exitCode, sent, files, sessionFrame>>

\* line 222
UnmatchedNotification ==
    \E method \in NotificationMethods \ {"exit"} :
        /\ Recv(InNotification(method))
        /\ sent' = Append(sent, LogMessage(<<"Unmatched notification received: ", method>>))
        /\ handled' = NotDispatched
        /\ UNCHANGED <<shutdown, serveResult, exitCode, files, sessionFrame>>

(***************************************************************************)
(* main, lines 233-241: what the process exits with once serve is over.     *)
(* A panic of the main thread exits with 101.  io.join() returns once the   *)
(* connection is dropped at the end of serve; the I/O threads are the       *)
(* transport's and are taken not to fail.                                   *)
(***************************************************************************)
MainExit ==
    /\ serveResult /= "running"
    /\ ~exitCode.some
    /\ exitCode' = Some(CASE serveResult = "panic" -> 101
                          [] serveResult = "Ok" -> 0                \* line 236
                          [] serveResult = "Err" -> 1)              \* line 239
    /\ UNCHANGED <<shutdown, serveResult, received, sent, handled, files, sessionFrame>>

(***************************************************************************)
(* The session: Server::new's state (lines 110-113), then serve and main.   *)
(***************************************************************************)
WordIdle ==
    /\ line = <<>>
    /\ character = 0
    /\ located = None
    /\ lpc = "idle"

HoverIdle ==
    /\ hword = <<>>
    /\ hsynsets = <<>>
    /\ blocks = <<>>
    /\ hpc = "idle"

SessionIdle ==
    /\ shutdown = FALSE
    /\ serveResult = "running"
    /\ exitCode = None
    /\ received = <<>>
    /\ sent = <<>>
    /\ handled = NotDispatched
    /\ files = <<>>

Init ==
    /\ SessionIdle
    /\ wordnet = SessionWordNet
    /\ WordIdle
    /\ HoverIdle

Next ==
    \/ RecvDisconnected
    \/ RequestAfterShutdown
    \/ HandleHover
    \/ HandleDefinition
    \/ HandleShutdown
    \/ UnmatchedRequest
    \/ UnmatchedResponse
    \/ ExitNotification
    \/ UnmatchedNotification
    \/ MainExit

Spec == Init /\ [][Next]_vars

(***************************************************************************)
(* get_word on every short line: the inputs are drawn in InitWord and       *)
(* Locate applies the scan.                                                 *)
(***************************************************************************)
LineChars == {"a", "B", " ", "1", "U+0130"}
Lines == UNION {[1..n -> LineChars] : n \in 0..MaxLen}

InitWord ==
    /\ SessionIdle
    /\ wordnet = SessionWordNet
    /\ HoverIdle
    /\ line \in Lines
    /\ character \in 0..MaxLen
    /\ located = None
    /\ lpc = "input"

Locate ==
    /\ lpc = "input"
    /\ located' = get_word_in_line(line, character)
    /\ lpc' = "done"
    /\ UNCHANGED <<line, character, sessionVars, wordnet, hoverVars>>

NextWord == Locate

SpecWord == InitWord /\ [][NextWord]_vars

(***************************************************************************)
(* render_hover on every small entry: the queried word, the senses and the  *)
(* database that resolves relation targets are drawn in InitHover and       *)
(* Render applies the renderer.                                             *)
(***************************************************************************)
HoverWords == { <<"a">>, <<"b">> }

LemmaLists ==
    << << <<"a">> >>,
       << <<"b">>, <<"a">> >>,
       << <<"a">>, <<"a", "_", "b">>, <<"a", " ", "b">> >>,
       << <<"b">>, <<"a", "_", "b">>, <<"a", "B">> >> >>

Definitions == <<"d1", "d2", "d3", "d4">>

RelationLists ==
    { <<>>,
      << Relationship("Antonym", "noun", 1) >>,
      << Relationship("Antonym", "noun", 2), Relationship("Hypernym", "noun", 1),
         Relationship("Antonym", "noun", 1) >> }

SynsetPool ==
    { SynSet(pos, Definitions[k], LemmaLists[k], rels) :
        pos \in {"noun", "verb"}, k \in 1..Len(LemmaLists), rels \in RelationLists }

\* the databases differ in what the relation targets (noun, 1), (noun, 2)
\* resolve to: a missing target, a target holding the queried word, targets
\* whose lemmas hold underscores, spaces and capitals
HoverWordNets ==
    { [synsets |-> <<>>,
       resolve |-> (<<"noun", 1>> :> SynSet("noun", "t1", << <<"b">> >>, <<>>))],
      [synsets |-> <<>>,
       resolve |-> (<<"noun", 1>> :> SynSet("noun", "t1", << <<"b">>, <<"a">> >>, <<>>))
                   @@ (<<"noun", 2>> :> SynSet("noun", "t2",
                                               << <<"a", "_", "b">>, <<"a", "B">> >>, <<>>))],
      [synsets |-> <<>>,
       resolve |-> (<<"noun", 1>> :> SynSet("noun", "t1",
                                            << <<"a", " ", "b">>, <<"a", "_", "b">> >>, <<>>))
                   @@ (<<"noun", 2>> :> SynSet("noun", "t2", << <<"b">> >>, <<>>))] }

InitHover ==
    /\ SessionIdle
    /\ WordIdle
    /\ wordnet \in HoverWordNets
    /\ hword \in HoverWords
    /\ hsynsets \in UNION {[1..n -> SynsetPool] : n \in 0..MaxSenses}
    \* synsets(word) returns senses that have the word among their lemmas
    /\ \A n \in 1..Len(hsynsets) : \E i \in 1..Len(hsynsets[n].words) :
           hsynsets[n].words[i] = hword
    /\ blocks = <<>>
    /\ hpc = "input"

Render ==
    /\ hpc = "input"
    /\ blocks' = render_hover(wordnet, hword, hsynsets)
    /\ hpc' = "done"
    /\ UNCHANGED <<hword, hsynsets, sessionVars, wordnet, wordVars>>

NextHover == Render

SpecHover == InitHover /\ [][NextHover]_vars

(***************************************************************************)
(* Properties of the session (checked under Spec).                          *)
(***************************************************************************)
Last(q) == q[Len(q)]

\* a step of serve that received a message
ReceivedOne == Len(received') = Len(received) + 1

\* the k-th inbound message is a Shutdown request
IsShutdownRequest(k) ==
    received[k].kind = "Request" /\ received[k].method = "shutdown"

\* the responses sent so far that carry id
ResponsesTo(id) ==
    {j \in 1..Len(sent) : sent[j].kind = "Response" /\ sent[j].id = id}

\* C1: once the shutdown flag is true, every Request received, whatever its
\* method, is answered with exactly one Response carrying its id, no result
\* and the error InvalidRequest, and is not dispatched: no word lookup, no
\* dictionary call, no file write.
C1_RequestAfterShutdown ==
    [][ (shutdown /\ ReceivedOne /\ Last(received').kind = "Request")
        => /\ sent' = Append(sent, Response(Last(received').id, Absent,
                                            InvalidRequestError))
           /\ handled' = NotDispatched
           /\ files' = files
           /\ serveResult' = "running" ]_vars

C1_Witness ==
    /\ shutdown
    /\ Len(received) >= 2
    /\ IsShutdownRequest(1)
    /\ Last(received) = Request(Len(received), "textDocument/definition")
    /\ Last(sent) = Response(Len(received), Absent, InvalidRequestError)
    /\ handled = NotDispatched

\* C2: an exit notification ends the session and no later message is
\* processed; while Active serve returns Err and the process exits non-zero,
\* while ShuttingDown serve returns Ok and the process exits with 0; so a
\* clean termination is reached only after a Shutdown request was processed.
C2_ExitOutcome ==
    /\ (received /= <<>> /\ Last(received) = InNotification("exit"))
           <=> serveResult \in {"Ok", "Err"}
    /\ serveResult = "Ok" =>
           /\ shutdown
           /\ \E k \in 1..Len(received) :
                  IsShutdownRequest(k) /\ Response(k, Null, None) \in {sent[j] : j \in 1..Len(sent)}
    /\ serveResult = "Err" => ~shutdown
    /\ exitCode.some =>
           /\ serveResult = "Ok" => exitCode.v = 0
           /\ serveResult = "Err" => exitCode.v /= 0
           /\ exitCode.v = 0 => serveResult = "Ok"

C2_ExitEndsSession ==
    /\ []C2_ExitOutcome
    /\ [][ serveResult /= "running"
           => UNCHANGED <<shutdown, serveResult, received, sent, handled, files>> ]_vars

C2_Witness ==
    /\ serveResult = "Ok"
    /\ exitCode = Some(0)
    /\ Len(received) = 2

\* C3, as claimed: every Shutdown request receives a success response with a
\* null payload, whatever the session state.
C3_ShutdownAlwaysSucceeds ==
    \A k \in 1..Len(received) :
        IsShutdownRequest(k)
            => \E j \in ResponsesTo(k) : sent[j] = Response(k, Null, None)

\* C3, amended: a Shutdown request received while no Shutdown request was
\* processed before receives exactly one response, a success with a null
\* payload; one received after a Shutdown request was processed receives
\* exactly one response, the error InvalidRequest with no result.
C3_ShutdownSucceedsWhileActive ==
    \A k \in 1..Len(received) :
        IsShutdownRequest(k)
            => /\ Cardinality(ResponsesTo(k)) = 1
               /\ \A j \in ResponsesTo(k) :
                      sent[j] = IF \E i \in 1..(k - 1) : IsShutdownRequest(i)
                                THEN Response(k, Absent, InvalidRequestError)
                                ELSE Response(k, Null, None)

C3_Witness ==
    /\ Len(received) >= 3
    /\ IsShutdownRequest(2)
    /\ IsShutdownRequest(3)
    /\ Response(2, Null, None) = sent[2]
    /\ Response(3, Absent, InvalidRequestError) = sent[3]

\* C4: in a session that received Shutdown requests, exactly one of them,
\* the first, has a success response, and every redundant one leaves the
\* session shutting down.
C4_ExactlyOneShutdownSucceeds ==
    LET shutdowns == {k \in 1..Len(received) : IsShutdownRequest(k)}
        succeeded == {k \in shutdowns :
                        \E j \in ResponsesTo(k) : ~sent[j].error.some}
    IN  shutdowns /= {}
            => /\ shutdown
               /\ succeeded = {CHOOSE k \in shutdowns : \A i \in shutdowns : k <= i}

C4_Witness ==
    /\ Cardinality({k \in 1..Len(received) : IsShutdownRequest(k)}) >= 2
    /\ shutdown

\* C5: the shutdown flag starts false, only the Shutdown handler sets it, and
\* once true no message makes it false again.
C5_ShutdownMonotonic ==
    /\ ~shutdown
    /\ [][ /\ shutdown => shutdown'
           /\ (~shutdown /\ shutdown')
                  => /\ ReceivedOne
                     /\ Last(received') = Request(Len(received'), "shutdown")
                     /\ handled'.handler = "shutdown" ]_vars

C5_Witness ==
    /\ shutdown
    /\ Len(received) = MaxMsgs
    /\ IsShutdownRequest(1)
    /\ received[2].kind = "Request"
    /\ Last(received).kind /= "Request"

\* C6: a Request with an unknown method received while Active, any inbound
\* Response, and any Notification other than exit each cause exactly one
\* log-message notification and no Response to be sent, leave the shutdown
\* flag as it was and do not end the serve loop.
Unrecognized(m) ==
    \/ m.kind = "Request" /\ m.method \notin {"textDocument/hover",
                                "textDocument/definition", "shutdown"}
    \/ m.kind = "Response"
    \/ m.kind = "Notification" /\ m.method /= "exit"

C6_UnrecognizedLogged ==
    [][ (ReceivedOne /\ Unrecognized(Last(received'))
            /\ (Last(received').kind = "Request" => ~shutdown))
        => /\ Len(sent') = Len(sent) + 1
           /\ SubSeq(sent', 1, Len(sent)) = sent
           /\ Last(sent').kind = "Notification"
           /\ Last(sent').method = "window/logMessage"
           /\ shutdown' = shutdown
           /\ serveResult' = "running" ]_vars

C6_Witness ==
    /\ Len(received) >= 3
    /\ received[1] = Request(1, "workspace/symbol")
    /\ received[2] = InResponse(2)
    /\ received[3] = InNotification("initialized")
    /\ Len(sent) = 3
    /\ \A j \in 1..3 : sent[j].kind = "Notification"
    /\ ~shutdown
    /\ serveResult = "running"

(***************************************************************************)
(* Properties of get_word (checked under SpecWord).                         *)
(***************************************************************************)
\* to_lowercase applied to each character of a run
lowercase(run) == flatten(map(run, to_lowercase))

\* the maximal run of alphabetic characters of l that holds the character
\* at index k (1-based), which is alphabetic
MaximalRun(l, k) ==
    LET all_alpha(a, b) == \A j \in a..b : is_alphabetic(l[j])
        first == CHOOSE a \in 1..k :
                     all_alpha(a, k) /\ (a = 1 \/ ~is_alphabetic(l[a - 1]))
        last == CHOOSE b \in k..Len(l) :
                     all_alpha(k, b) /\ (b = Len(l) \/ ~is_alphabetic(l[b + 1]))
    IN  SubSeq(l, first, last)

\* C7: when the cursor indexes an alphabetic character of the line, get_word
\* returns the lowercase form of the maximal run of alphabetic characters
\* that contains that index.
C7_MaximalRunUnderCursor ==
    (lpc = "done" /\ character < Len(line) /\ is_alphabetic(line[character + 1]))
        => located = Some(lowercase(MaximalRun(line, character + 1)))

C7_Witness ==
    /\ lpc = "done"
    /\ line = <<"a", "B", " ">>
    /\ character = 0
    /\ located = Some(<<"a", "b">>)

\* C8: on an empty line and on a line with no alphabetic character get_word
\* returns None, never an empty word, for every cursor offset.
C8_NoWordWithoutLetters ==
    (lpc = "done" /\ \A k \in 1..Len(line) : ~is_alphabetic(line[k]))
        => located = None

\* C9: when the cursor indexes a non-alphabetic character that a run of
\* alphabetic characters immediately precedes, get_word returns that run.
C9_PrecedingRun ==
    (/\ lpc = "done"
     /\ 1 <= character
     /\ character < Len(line)
     /\ ~is_alphabetic(line[character + 1])
     /\ is_alphabetic(line[character]))
        => located = Some(lowercase(MaximalRun(line, character)))

(***************************************************************************)
(* Properties of render_hover (checked under SpecHover).                    *)
(***************************************************************************)
\* the items of the blocks of one kind
ItemsOf(kind) ==
    UNION { {blocks[j].items[i] : i \in 1..Len(blocks[j].items)} :
              j \in {j \in 1..Len(blocks) : blocks[j].kind = kind} }

\* the elements of a sequence
Range(q) == {q[i] : i \in 1..Len(q)}

\* the lemmas of the Antonym targets of the senses of pos that resolve
AntonymLemmas(pos) ==
    LET senses == {ss \in Range(hsynsets) : ss.part_of_speech = pos}
        targets == UNION { {<<r.part_of_speech, r.synset_offset>> :
                              r \in {r \in Range(ss.relationships) :
                                       r.relation = "Antonym"}} : ss \in senses }
    IN  UNION { Range(wordnet.resolve[key].words) :
                  key \in targets \cap DOMAIN wordnet.resolve }

\* C10, as claimed: neither a Synonyms list nor an Antonyms list holds the
\* queried word.
C10_NoQueriedWord ==
    hpc = "done" => hword \notin (ItemsOf("Synonyms") \cup ItemsOf("Antonyms"))

\* C10, amended: no Synonyms list holds the queried word; an Antonyms list
\* is not filtered, and the Antonyms list of a part of speech holds the
\* queried word exactly when a resolved Antonym target of one of its senses
\* has the queried word as a lemma.
C10_SynonymsExcludeQueriedWord ==
    hpc = "done"
        => /\ hword \notin ItemsOf("Synonyms")
           /\ \A pos \in Range(PartOfSpeech_iter) :
                  hword \in AntonymLemmas(pos)
                      <=> \E j \in 1..Len(blocks) :
                              /\ blocks[j].kind = "Antonyms"
                              /\ blocks[j].pos = pos
                              /\ hword \in Range(blocks[j].items)

C10_Witness ==
    /\ hpc = "done"
    /\ \E j \in 1..Len(blocks) :
           /\ blocks[j].kind = "Synonyms"
           /\ blocks[j].items /= <<>>
    /\ \E j \in 1..Len(blocks) :
           /\ blocks[j].kind = "Antonyms"
           /\ hword \in Range(blocks[j].items)

\* C11: the items of every emitted Synonyms list and Antonyms list, as
\* emitted (underscores rendered as spaces), are pairwise distinct and in
\* ascending lexicographic order.
C11_EmittedListsSortedDistinct ==
    hpc = "done"
        => \A j \in 1..Len(blocks) :
               blocks[j].kind \in {"Synonyms", "Antonyms"}
                   => \A i \in 1..(Len(blocks[j].items) - 1) :
                          str_lt(blocks[j].items[i], blocks[j].items[i + 1])

\* C14: a Synonyms block is emitted for a part of speech only if the lemmas
\* of its senses, the queried word excluded, are not empty: no Synonyms
\* block with an empty list is emitted.
C14_NoEmptySynonymsBlock ==
    hpc = "done"
        => \A j \in 1..Len(blocks) :
               blocks[j].kind = "Synonyms"
                   => /\ blocks[j].items /= <<>>
                      /\ \E n \in 1..Len(hsynsets) :
                             /\ hsynsets[n].part_of_speech = blocks[j].pos
                             /\ Range(hsynsets[n].words) \ {hword} /= {}

\* the senses of one part of speech, in the order the resolver returned them
SensesOf(pos) == SelectSeq(hsynsets, LAMBDA ss : ss.part_of_speech = pos)

\* the place of a part of speech in the canonical order
PosIndex(pos) ==
    CHOOSE k \in 1..Len(PartOfSpeech_iter) : PartOfSpeech_iter[k] = pos

\* C16: the parts of speech are visited in canonical order; each one with
\* senses emits one header block whose definitions are numbered 1..k in the
\* order the resolver returned those senses, one without senses contributes
\* no block, and the output is empty exactly when there are no senses.
C16_HeaderPerPartOfSpeech ==
    hpc = "done"
        => LET headers == SelectSeq(blocks, LAMBDA b : b.kind = "defs")
           IN  /\ map(headers, LAMBDA b : b.pos)
                      = SelectSeq(PartOfSpeech_iter, LAMBDA pos : SensesOf(pos) /= <<>>)
               /\ \A j \in 1..Len(headers) :
                      /\ headers[j].word = hword
                      /\ headers[j].items
                             = [i \in 1..Len(SensesOf(headers[j].pos)) |->
                                    <<i, SensesOf(headers[j].pos)[i].definition>>]
               /\ \A j \in 1..Len(blocks) :
                      /\ SensesOf(blocks[j].pos) /= <<>>
                      /\ blocks[j].kind /= "defs"
                             => j > 1 /\ blocks[j - 1].pos = blocks[j].pos
               /\ \A j \in 1..(Len(blocks) - 1) :
                      PosIndex(blocks[j].pos) <= PosIndex(blocks[j + 1].pos)
               /\ (blocks = <<>>) <=> (hsynsets = <<>>)

C16_Witness ==
    /\ hpc = "done"
    /\ Len(hsynsets) = 2
    /\ hsynsets[1].part_of_speech = "verb"
    /\ hsynsets[2].part_of_speech = "verb"
    /\ hsynsets[1].definition = "d3"
    /\ hsynsets[2].definition = "d1"
    /\ blocks[1].kind = "defs"
    /\ blocks[1].pos = "verb"
    /\ blocks[1].items = << <<1, "d3">>, <<2, "d1">> >>

\* C15: when the cursor offset is not below the number of characters of the
\* line, get_word returns None whatever the line holds, also when the line
\* ends inside a run; a word is returned only if the offset indexed a
\* character of the line.
C15_NoWordBeyondLine ==
    lpc = "done"
        => /\ character >= Len(line) => located = None
           /\ located.some => character < Len(line)

C15_Witness ==
    /\ lpc = "done"
    /\ line = <<"1", "a", "B">>
    /\ character = 3
    /\ located = None

\* C12: a relation target the database cannot resolve contributes an empty
\* lemma set and is never an error: whenever the dictionary was called for
\* a request, by the hover renderer or by the full-reference renderer, the
\* session goes on and the request has its normal response.
C12_UnresolvedTargetNeverFails ==
    [][(ReceivedOne /\ handled'.dict)
           => /\ serveResult' = serveResult
              /\ Len(sent') = Len(sent) + 1
              /\ Last(sent').kind = "Response"
              /\ Last(sent').id = Len(received')
              /\ ~Last(sent').error.some
              /\ Last(sent').result.tag \in {"hover", "location"}]_vars

\* C13: a go-to-definition request is answered with a location, and a
\* reference document is written, only for a word with at least one sense;
\* a word the resolver has no senses for gets the absent result.
C13_LocationOnlyWithSenses ==
    /\ \A j \in 1..Len(sent) :
           (sent[j].kind = "Response" /\ sent[j].result.tag = "location")
               => synsets_of(wordnet, sent[j].result.value[2]) /= <<>>
    /\ \A f \in DOMAIN files : synsets_of(wordnet, f[2]) /= <<>>

\* C17: the Word Locator never fails: when it finds no word, a missing line,
\* an unreadable line and a document that cannot be opened included, the
\* session goes on and the request is answered with the absent result.
C17_WordLocatorNeverFails ==
    [][(ReceivedOne /\ handled'.get_word /\ ~handled'.dict)
           => /\ serveResult' = serveResult
              /\ sent' = Append(sent, Response(Len(received'), Absent, None))]_vars

\* the lemmas of the targets of the relations of one kind of a sense, a
\* target the database cannot resolve contributing none
ResolvedLemmas(wn, synset, relation) ==
    UNION { LET t == resolve(wn, r.part_of_speech, r.synset_offset)
            IN  IF t.some THEN Range(t.v.words) ELSE {}
            : r \in Range(with_relationship(synset, relation)) }

\* C18: a reference document numbers the senses of its word 1..n in the
\* order the resolver returned them, and for each sense holds exactly one
\* relation line per distinct kind among the sense's relations, in the
\* fixed order of the kinds, listing without repetition and in ascending
\* order the lemmas of the resolved targets of that kind.
C18_ReferenceDocumentShape ==
    \A f \in DOMAIN files :
        LET senses == synsets_of(wordnet, f[2])
            entries == files[f].entries
        IN  /\ Len(entries) = Len(senses)
            /\ \A i \in 1..Len(entries) :
                   LET lines == entries[i].relationships
                   IN  /\ entries[i].i = i
                       /\ entries[i].definition = senses[i].definition
                       /\ entries[i].pos = senses[i].part_of_speech
                       /\ map(lines, LAMBDA l : l.relation)
                              = SelectSeq(Relation_order,
                                    LAMBDA rel : with_relationship(senses[i], rel) /= <<>>)
                       /\ \A k \in 1..Len(lines) :
                              /\ Range(lines[k].words)
                                     = ResolvedLemmas(wordnet, senses[i], lines[k].relation)
                              /\ \A n \in 1..(Len(lines[k].words) - 1) :
                                     str_lt(lines[k].words[n], lines[k].words[n + 1])

\* the reference document of a word: every sense rendered, a target the
\* database cannot resolve contributing nothing
Rendering(wn, word) ==
    LET senses == synsets_of(wn, word)
        lemmas(r) == LET t == resolve(wn, r.part_of_speech, r.synset_offset)
                     IN  IF t.some THEN t.v.words ELSE <<>>
        lines(ss) ==
            map(SelectSeq(Relation_order,
                          LAMBDA rel : with_relationship(ss, rel) /= <<>>),
                LAMBDA rel :
                    [relation |-> rel,
                     words |-> dedup(sort(flatten(map(with_relationship(ss, rel),
                                                      lemmas))))])
    IN  [heading |-> word,
         entries |-> [i \in 1..Len(senses) |->
                         entry_of(word, i, senses[i], lines(senses[i]))]]

\* C19: the path of a reference document depends on the word only and the
\* document is overwritten in place: every document on disk is the rendering
\* of the senses of its word as of the latest request for it, so a repeated
\* request leaves it as it was.
C19_ReferenceDocumentIsLatestRendering ==
    \A f \in DOMAIN files :
        /\ f = filename_of(f[2])
        /\ files[f] = Rendering(wordnet, f[2])

\* the k-th inbound message was received with the shutdown flag still false
ActiveAt(k) == \A n \in 1..(k - 1) : ~IsShutdownRequest(n)

\* C20: every Response carries the id of a Request already received, no
\* Request has more than one Response, and every hover, go-to-definition or
\* Shutdown Request received while Active has exactly one Response, without
\* error, before the next message is read.
C20_OneResponsePerRequest ==
    /\ \A j \in 1..Len(sent) :
           sent[j].kind = "Response"
               => /\ sent[j].id \in 1..Len(received)
                  /\ received[sent[j].id].kind = "Request"
    /\ \A k \in 1..Len(received) :
           /\ Cardinality(ResponsesTo(k)) <= 1
           /\ (/\ received[k].kind = "Request"
               /\ received[k].method \in {"textDocument/hover",
                                          "textDocument/definition", "shutdown"}
               /\ ActiveAt(k))
                  => \E j \in ResponsesTo(k) : ~sent[j].error.some

====
